---- MODULE Spec2Model ----
(***************************************************************************)
(* State-machine model of the client-side data layer of the immigration    *)
(* case manager frontend:                                                  *)
(*   - the session data cache    (DataProvider, src/src/main.tsx)          *)
(*   - the templates list view   (Templates, src/src/components/...)       *)
(*   - the clients list view     (Clients, kept in src/README.md)          *)
(*   - the REST client           (api, src/src/utils/api.ts)               *)
(* The backend and the auth provider are the environment.                  *)
(***************************************************************************)
EXTENDS Integers, Sequences, FiniteSets, TLC

VARIABLES
  user,          \* getCurrentUser() returns a user (BOOLEAN)
  server,        \* the backend's collections: clients, templates, reminders, nextId
  now,           \* Date.now(), in minutes, counted from the last successful fetch
  cache,         \* DataProvider state
  loadAllCalls,  \* number of loadAllData() calls awaiting their Promise.all
  refreshCalls,  \* <<kind, caller>> of the refreshClients/Templates/Reminders
                 \* calls that await their fetch
  tpl,           \* Templates component state
  tplReqs,       \* loadTemplatesFromAPI calls awaiting api.getCaseTemplates
  cli,           \* Clients component state
  cliReqs,       \* loadClients calls awaiting api.getClients
  op,            \* the operation that made the last step
  toast,         \* the toast the last step showed through showToast, if any
  settled,       \* the page request of a list view the last step settled, if
                 \* any, with the response body it got (none: it was rejected)
                 \* and whether it was the last issued of those in flight
  loadedAll,     \* a loadAllData() call has resolved (BOOLEAN)
  focusReloadAge,\* time since the clients view last reloaded upon a focus or
                 \* visibility event, in units of 250 ms, if it ever did
  app,           \* App component state and the variables of its auth effect
  roleCalls,     \* number of loadCurrentUserRole() calls awaiting api.getCurrentUser
  payment,       \* the payment field of one client on the backend
  payCalls,      \* api.addPayment calls in flight on that client
  paid,          \* the amounts of the api.addPayment calls that have resolved
  upload         \* the upload request api last sent to the backend, if any

vars == <<user, server, now, cache, loadAllCalls, refreshCalls,
          tpl, tplReqs, cli, cliReqs, op, toast, settled, loadedAll,
          focusReloadAge, app, roleCalls, payment, payCalls, paid, upload>>

tplVars == <<tpl, tplReqs>>
appVars == <<app, roleCalls>>
apiVars == <<payment, payCalls, paid, upload>>
cliVars == <<cli, cliReqs>>

\* null / undefined / a missing field is <<>>; a present value v is <<v>>
Null == <<>>
Some(v) == <<v>>

\* ---------------------------------------------------------------- bounds
MaxCreated == 1     \* entities created on the backend
MaxDeleted == 1     \* entities deleted on the backend
MaxRev == 1         \* revisions of one entity (updates of it)
MaxInFlight == 2    \* concurrent loadAllData() calls
MaxPending == 2     \* concurrent page requests of one list view
MaxVisible == 55    \* Load More is not pressed over a longer visible list
MaxRoleCalls == 2   \* concurrent loadCurrentUserRole() calls
MaxPayments == 2    \* api.addPayment calls on the client

\* ------------------------------------------------------- program constants
CACHE_DURATION == 5     \* minutes (5 * 60 * 1000 ms)
CHECK_INTERVAL == 1     \* minutes (60000 ms)
LIMIT == 25             \* page size of both lists
RELOAD_DEBOUNCE_MS == 8 \* units of 250 ms (2000 ms)
RELOAD_DELAY == 2       \* units of 250 ms (the 500 ms of the reload timer)

Kinds == {"clients", "templates", "reminders"}

Min(a, b) == IF a < b THEN a ELSE b

\* ------------------------------------------------------------- sequences
Item(i, r) == [id |-> i, rev |-> r]

\* Array.prototype.slice(from, to), 0-based, end exclusive
Slice(s, from, to) ==
  SubSeq(s, Min(from, Len(s)) + 1, Min(to, Len(s)))

RemoveAt(s, k) == SubSeq(s, 1, k - 1) \o SubSeq(s, k + 1, Len(s))

\* ------------------------------------------------------------ the backend
\* A response body is either a bare array or an object that may carry the
\* item list (under "clients"/"templates"), total and hasMore.
ArrayBody(items) ==
  [isArray |-> TRUE, list |-> Some(items), total |-> Null, hasMore |-> Null]

PageBody(items, total, hasMore) ==
  [isArray |-> FALSE, list |-> items, total |-> total, hasMore |-> hasMore]

\* The search box holds one of these strings.
Terms == {"", " ", "a"}

\* which entities a search term selects is the backend's business
Matches(it, term) == IF term = "a" THEN it.id % 2 = 1 ELSE it.id % 2 = 0

Filtered(s, term) == LET Hit(it) == Matches(it, term) IN SelectSeq(s, Hit)

\* What GET /<kind>?limit=&offset=&search= may answer.  A request without
\* limit gets the whole (filtered) collection, as a bare array or wrapped in
\* a page object; a request with limit gets that page.
Get(req) ==
  LET all == IF req.search = Null THEN server[req.kind]
             ELSE Filtered(server[req.kind], req.search[1])
      off == IF req.offset = Null THEN 0 ELSE req.offset[1]
      page == IF req.limit = Null THEN Slice(all, off, Len(all))
              ELSE Slice(all, off, off + req.limit[1])
      body == PageBody(Some(page), Some(Len(all)), Some(off + Len(page) < Len(all)))
  IN IF req.limit = Null THEN {ArrayBody(all), body} ELSE {body}

\* Get's answers and, for every page object among them, the same object
\* with fields missing: the item list, total and hasMore, or all three.
GetAnyShape(req) ==
  Get(req) \cup
  UNION {{[b EXCEPT !.list = Null],
          [b EXCEPT !.total = Null, !.hasMore = Null],
          [b EXCEPT !.list = Null, !.total = Null, !.hasMore = Null]} :
         b \in {x \in Get(req) : ~x.isArray}}

\* POST /<kind>
ServerCreate(kind) ==
  /\ server.created < MaxCreated
  /\ server' = [server EXCEPT ![kind] = Append(@, Item(server.nextId, 0)),
                              !.nextId = @ + 1,
                              !.created = @ + 1]

\* PUT /<kind>/<id> of the k-th entity
ServerUpdate(kind, k) ==
  /\ k \in 1..Len(server[kind])
  /\ server[kind][k].rev < MaxRev
  /\ server' = [server EXCEPT ![kind][k].rev = @ + 1]

\* DELETE /<kind>/<id> of the k-th entity
ServerDelete(kind, k) ==
  /\ k \in 1..Len(server[kind])
  /\ server.deleted < MaxDeleted
  /\ server' = [server EXCEPT ![kind] = RemoveAt(@, k),
                              !.deleted = @ + 1]

Mutations == {"create", "update", "delete"}

ServerMutation(kind, m, k) ==
  CASE m = "create" -> ServerCreate(kind)
    [] m = "update" -> ServerUpdate(kind, k)
    [] m = "delete" -> ServerDelete(kind, k)

\* -------------------------------------------------------------- the api
\* The request api.getCaseTemplates(limit, offset, search) sends.  The
\* function declares no parameters and fetches `${API_URL}/case-templates`:
\* whatever the caller passes is dropped.
getCaseTemplates(limit, offset, search) ==
  [kind |-> "templates", limit |-> Null, offset |-> Null, search |-> Null]

\* The request api.getClients(limit, offset, search) sends: likewise.
getClients(limit, offset, search) ==
  [kind |-> "clients", limit |-> Null, offset |-> Null, search |-> Null]

\* ------------------------------------------------------------- the cache
\* Array.isArray(data) ? data : (data.templates || [])
CollectionOf(data) ==
  IF data.list # Null THEN data.list[1] ELSE <<>>

StaleAt_AtMaxAge(c, t) ==
  \/ c.lastFetchTime = Null
  \/ t - c.lastFetchTime[1] >= CACHE_DURATION

\* isStale(maxAge = CACHE_DURATION) over lastFetchTime of c at Date.now() = t
StaleAt(c, t) ==
  \/ c.lastFetchTime = Null
  \/ t - c.lastFetchTime[1] > CACHE_DURATION

isStale == StaleAt(cache, now)

\* Date.now() is stored relative to the fetch: only Date.now() - lastFetchTime
\* is ever read, so the clock restarts at every setLastFetchTime(Date.now()).
Stamped(c) == [c EXCEPT !.lastFetchTime = Some(0)]

\* the three fetches resolved
LoadAllResolvedState(t, c, r) ==
  Stamped([cache EXCEPT !.templates = CollectionOf(t),
                        !.clients = CollectionOf(c),
                        !.reminders = r,
                        !.loading = FALSE])

LoadAllRejectedState_Clears ==
  [cache EXCEPT !.loading = FALSE, !.clients = <<>>, !.templates = <<>>,
                !.reminders = <<>>, !.lastFetchTime = Null]

\* one of the three fetches rejected: catch logs, finally clears loading
LoadAllRejectedState == [cache EXCEPT !.loading = FALSE]

RefreshResolvedState_ClearsOthers(kind, data) ==
  Stamped([[cache EXCEPT !.clients = <<>>, !.templates = <<>>, !.reminders = <<>>]
             EXCEPT ![kind] =
               IF kind = "reminders" THEN data ELSE CollectionOf(data)])

RefreshResolvedState(kind, data) ==
  Stamped([cache EXCEPT ![kind] =
             IF kind = "reminders" THEN data ELSE CollectionOf(data)])

\* invalidateCache()
InvalidatedState == [cache EXCEPT !.lastFetchTime = Null]

\* the auto-refresh effect installs its interval only when this holds
AutoRefreshArmed == cache.isInitialized /\ cache.lastFetchTime # Null

\* ------------------------------------------------- both list components
\* String.prototype.trim, on Terms
Trim(s) == IF s = " " THEN "" ELSE s

\* searchQuery.trim() || undefined
TermOrUndefined(s) == IF Trim(s) = "" THEN Null ELSE Some(Trim(s))

\* useState initial values; list is "templates" or "clients"
Unmounted(list) ==
  [mounted |-> FALSE, loading |-> TRUE, loadingMore |-> FALSE,
   hasMore |-> FALSE, total |-> 0, offset |-> 0, searchQuery |-> ""]
  @@ (list :> <<>>)

\* loadTemplatesFromAPI / loadClients up to the await
BeforeAwait(t, reset) ==
  IF reset THEN [t EXCEPT !.loading = TRUE, !.offset = 0]
  ELSE [t EXCEPT !.loadingMore = TRUE]

\* const currentOffset = reset ? 0 : offset
CurrentOffset(t, reset) == IF reset THEN 0 ELSE t.offset

PendingCall_Unchecked(t, reset, searchTerm, wire) ==
  [reset |-> reset, offset |-> CurrentOffset(t, reset), search |-> searchTerm,
   sent |-> TRUE, wire |-> wire]

\* The pending call: what the continuation closes over and the request sent
\* (none when getAuthHeaders throws for want of a user).
PendingCall(t, reset, searchTerm, wire) ==
  [reset |-> reset, offset |-> CurrentOffset(t, reset), search |-> searchTerm,
   sent |-> user, wire |-> wire]

\* the response branches of loadTemplatesFromAPI / loadClients
Adopted(list, t, call, data) ==
  IF ~data.isArray /\ data.list # Null
  THEN [t EXCEPT ![list] = IF call.reset THEN data.list[1] ELSE @ \o data.list[1],
                 !.hasMore = IF data.hasMore = Null THEN FALSE ELSE data.hasMore[1],
                 !.total = IF data.total = Null THEN 0 ELSE data.total[1],
                 !.offset = call.offset + Len(data.list[1])]
  ELSE IF data.isArray
  THEN [t EXCEPT ![list] = data.list[1],
                 !.hasMore = FALSE,
                 !.total = Len(data.list[1]),
                 !.offset = Len(data.list[1])]
  ELSE t

\* finally { setLoading(false); setLoadingMore(false) }
Finally(t) == [t EXCEPT !.loading = FALSE, !.loadingMore = FALSE]

\* ------------------------------------------------------------- Templates
\* with the two refs: hasInitialized.current and the timer searchTimeoutRef
\* holds while it is pending
TplUnmounted ==
  Unmounted("templates") @@ [hasInitialized |-> FALSE, searchTimeout |-> Null]

\* cachedTemplates.slice(0, LIMIT) and the four setters that follow it
FirstPageFromCache(t, cachedTemplates) ==
  LET initialTemplates == Slice(cachedTemplates, 0, LIMIT) IN
  [t EXCEPT !.templates = initialTemplates,
            !.total = Len(cachedTemplates),
            !.hasMore = Len(cachedTemplates) > LIMIT,
            !.offset = Len(initialTemplates)]

\* the cache-sync effect's body
CacheSyncEffect(t, cachedTemplates) ==
  IF ~t.hasInitialized THEN t
  ELSE IF Trim(t.searchQuery) # "" THEN t
  ELSE IF Len(cachedTemplates) > 0 /\ Len(cachedTemplates) # t.total
  THEN FirstPageFromCache(t, cachedTemplates)
  ELSE t

\* The render that follows a batch of state updates: the cache-sync effect
\* runs when one of its dependencies [cachedTemplates.length, total,
\* searchQuery] changed.  (It leaves total = cachedTemplates.length, so the
\* render it causes runs it to no further effect.)
Rendered(old, oldCached, new, newCached) ==
  IF ~new.mounted THEN new
  ELSE IF <<Len(newCached), new.total, new.searchQuery>>
            # <<Len(oldCached), old.total, old.searchQuery>>
  THEN CacheSyncEffect(new, newCached)
  ELSE new

MoreFromCache_Replaces(t, cachedTemplates) ==
  LET nextTemplates == Slice(cachedTemplates, t.offset, t.offset + LIMIT) IN
  IF Len(nextTemplates) > 0
  THEN [t EXCEPT !.templates = nextTemplates,
                 !.offset = t.offset + Len(nextTemplates),
                 !.hasMore = t.offset + Len(nextTemplates) < Len(cachedTemplates)]
  ELSE t

\* handleLoadMore, cache branch
MoreFromCache(t, cachedTemplates) ==
  LET nextTemplates == Slice(cachedTemplates, t.offset, t.offset + LIMIT) IN
  IF Len(nextTemplates) > 0
  THEN [t EXCEPT !.templates = @ \o nextTemplates,
                 !.offset = t.offset + Len(nextTemplates),
                 !.hasMore = t.offset + Len(nextTemplates) < Len(cachedTemplates)]
  ELSE t

\* --------------------------------------------------------------- Clients
\* with the two variables of the visibility/focus effect: reloadTimeout, the
\* time left on its timer while one is pending, and lastReloadTime, kept as
\* Date.now() - lastReloadTime (none while lastReloadTime is 0); both in
\* units of 250 ms
CliUnmounted ==
  Unmounted("clients") @@ [reloadTimeout |-> Null, lastReloadAge |-> Null]

\* ages are counted up to the first value beyond RELOAD_DEBOUNCE_MS
Older(age) ==
  IF age = Null THEN Null ELSE Some(Min(age[1] + 1, RELOAD_DEBOUNCE_MS + 1))

\* now - lastReloadTime > RELOAD_DEBOUNCE_MS
ReloadAllowed(c) ==
  c.lastReloadAge = Null \/ c.lastReloadAge[1] > RELOAD_DEBOUNCE_MS

\* ---------------------------------------------------------- cache actions
\* the body of loadAllData up to its await
loadAllDataCall(c) ==
  IF ~user
  THEN /\ cache' = [c EXCEPT !.loading = FALSE]
       /\ UNCHANGED loadAllCalls
  ELSE /\ cache' = [c EXCEPT !.loading = TRUE]
       /\ loadAllCalls' = loadAllCalls + 1

LoadAllResolve ==
  /\ loadAllCalls > 0
  /\ \E t \in Get(getCaseTemplates(Null, Null, Null)),
        c \in Get(getClients(Null, Null, Null)) :
       cache' = LoadAllResolvedState(t, c, server.reminders)
  /\ loadAllCalls' = loadAllCalls - 1
  /\ now' = 0
  /\ tpl' = Rendered(tpl, cache.templates, tpl, cache'.templates)
  /\ op' = "LoadAllResolve"
  /\ toast' = Null
  /\ loadedAll' = TRUE
  /\ focusReloadAge' = focusReloadAge
  /\ UNCHANGED <<appVars, apiVars>>
  /\ settled' = Null
  /\ UNCHANGED <<user, server, refreshCalls, tplReqs, cliVars>>

LoadAllReject ==
  /\ loadAllCalls > 0
  /\ cache' = LoadAllRejectedState
  /\ loadAllCalls' = loadAllCalls - 1
  /\ tpl' = Rendered(tpl, cache.templates, tpl, cache'.templates)
  /\ op' = "LoadAllReject"
  /\ toast' = Null
  /\ loadedAll' = loadedAll
  /\ focusReloadAge' = focusReloadAge
  /\ UNCHANGED <<appVars, apiVars>>
  /\ settled' = Null
  /\ UNCHANGED <<user, server, now, refreshCalls, tplReqs, cliVars>>

\* initial-load effect: checkUser(), immediately and every second
InitialLoad ==
  /\ ~cache.isInitialized
  /\ user
  /\ loadAllCalls < MaxInFlight
  /\ loadAllDataCall([cache EXCEPT !.isInitialized = TRUE])
  /\ op' = "InitialLoad"
  /\ toast' = Null
  /\ loadedAll' = loadedAll
  /\ focusReloadAge' = focusReloadAge
  /\ UNCHANGED <<appVars, apiVars>>
  /\ settled' = Null
  /\ UNCHANGED <<user, server, now, refreshCalls, tplVars, cliVars>>

\* refreshAll()
refreshAll ==
  /\ loadAllCalls < MaxInFlight
  /\ loadAllDataCall(cache)
  /\ op' = "refreshAll"
  /\ toast' = Null
  /\ loadedAll' = loadedAll
  /\ focusReloadAge' = focusReloadAge
  /\ UNCHANGED <<appVars, apiVars>>
  /\ settled' = Null
  /\ UNCHANGED <<user, server, now, refreshCalls, tplVars, cliVars>>

\* A minute passes; when the interval is installed its callback runs:
\* if (isStale()) loadAllData()
AutoRefreshTick ==
  /\ cache.lastFetchTime # Null
  /\ now' = Min(now + CHECK_INTERVAL, cache.lastFetchTime[1] + CACHE_DURATION + 1)
  /\ IF AutoRefreshArmed /\ StaleAt(cache, now')
     THEN loadAllCalls < MaxInFlight /\ loadAllDataCall(cache)
     ELSE UNCHANGED <<cache, loadAllCalls>>
  /\ op' = "AutoRefreshTick"
  /\ toast' = Null
  /\ loadedAll' = loadedAll
  /\ focusReloadAge' = focusReloadAge
  /\ UNCHANGED <<appVars, apiVars>>
  /\ settled' = Null
  /\ UNCHANGED <<user, server, refreshCalls, tplVars, cliVars>>

\* refreshClients / refreshTemplates / refreshReminders up to the await,
\* called by some consumer of the context
\* (without a user getAuthHeaders throws and the catch logs)
RefreshCall(kind) ==
  /\ <<kind, "ctx">> \notin refreshCalls
  /\ refreshCalls' = IF user THEN refreshCalls \cup {<<kind, "ctx">>}
                     ELSE refreshCalls
  /\ op' = "RefreshCall"
  /\ toast' = Null
  /\ loadedAll' = loadedAll
  /\ focusReloadAge' = focusReloadAge
  /\ UNCHANGED <<appVars, apiVars>>
  /\ settled' = Null
  /\ UNCHANGED <<user, server, now, cache, loadAllCalls, tplVars, cliVars>>

\* Templates' handlers run `await refreshTemplates(); hasInitialized.current
\* = false`: the assignment runs in the microtask that follows the refresh,
\* before React renders the new cache (updates made outside an event handler
\* are rendered from a scheduler task).
\* callers of a refresh: "ctx" some consumer of the context, "tpl" a
\* CreateTemplateModal onSuccess handler of Templates, "tplDelete" Templates'
\* confirmDelete; "ctxDelete" is a confirmDelete whose component has unmounted
TplCallers == {"tpl", "tplDelete"}

AfterAwaitedRefresh(caller, t) ==
  IF caller \in TplCallers /\ t.mounted
  THEN [t EXCEPT !.hasInitialized = FALSE] ELSE t

\* confirmDelete goes on, after the awaited reload or refresh, to
\* showToast(`... deleted successfully`, 'success')
ToastAfterAwait(caller) ==
  IF caller \in {"tplDelete", "ctxDelete", "delete", "deleteGone"}
  THEN Some("success") ELSE Null

RefreshResolve ==
  /\ \E call \in refreshCalls :
       /\ \E data \in (IF call[1] = "reminders" THEN {server.reminders}
                       ELSE Get(IF call[1] = "clients"
                                THEN getClients(Null, Null, Null)
                                ELSE getCaseTemplates(Null, Null, Null))) :
            cache' = RefreshResolvedState(call[1], data)
       /\ refreshCalls' = refreshCalls \ {call}
       /\ tpl' = Rendered(tpl, cache.templates,
                          AfterAwaitedRefresh(call[2], tpl), cache'.templates)
       /\ op' = IF call[2] \in TplCallers THEN "MutationRefreshed"
                ELSE "RefreshResolve"
       /\ toast' = ToastAfterAwait(call[2])
       /\ loadedAll' = loadedAll
       /\ focusReloadAge' = focusReloadAge
       /\ UNCHANGED <<appVars, apiVars>>
       /\ settled' = Null
  /\ now' = 0
  /\ UNCHANGED <<user, server, loadAllCalls, tplReqs, cliVars>>

\* the fetch rejected: catch logs
RefreshReject ==
  /\ \E call \in refreshCalls :
       /\ refreshCalls' = refreshCalls \ {call}
       /\ tpl' = AfterAwaitedRefresh(call[2], tpl)
       /\ op' = IF call[2] \in TplCallers THEN "MutationRefreshFailed"
                ELSE "RefreshReject"
       /\ toast' = ToastAfterAwait(call[2])
       /\ loadedAll' = loadedAll
       /\ focusReloadAge' = focusReloadAge
       /\ UNCHANGED <<appVars, apiVars>>
       /\ settled' = Null
  /\ UNCHANGED <<user, server, now, cache, loadAllCalls, tplReqs, cliVars>>

invalidateCache ==
  /\ cache' = InvalidatedState
  /\ now' = 0
  /\ op' = "invalidateCache"
  /\ toast' = Null
  /\ loadedAll' = loadedAll
  /\ focusReloadAge' = focusReloadAge
  /\ UNCHANGED <<appVars, apiVars>>
  /\ settled' = Null
  /\ UNCHANGED <<user, server, loadAllCalls, refreshCalls, tplVars, cliVars>>

\* ------------------------------------------------------------ environment
Login ==
  /\ ~user
  /\ user' = TRUE
  /\ op' = "Login"
  /\ toast' = Null
  /\ loadedAll' = loadedAll
  /\ focusReloadAge' = focusReloadAge
  /\ UNCHANGED <<appVars, apiVars>>
  /\ settled' = Null
  /\ UNCHANGED <<server, now, cache, loadAllCalls, refreshCalls, tplVars, cliVars>>

Logout ==
  /\ user
  /\ user' = FALSE
  /\ op' = "Logout"
  /\ toast' = Null
  /\ loadedAll' = loadedAll
  /\ focusReloadAge' = focusReloadAge
  /\ UNCHANGED <<appVars, apiVars>>
  /\ settled' = Null
  /\ UNCHANGED <<server, now, cache, loadAllCalls, refreshCalls, tplVars, cliVars>>

\* an entity is created on the backend
BackendChange ==
  /\ \E kind \in Kinds : ServerCreate(kind)
  /\ op' = "BackendChange"
  /\ toast' = Null
  /\ loadedAll' = loadedAll
  /\ focusReloadAge' = focusReloadAge
  /\ UNCHANGED <<appVars, apiVars>>
  /\ settled' = Null
  /\ UNCHANGED <<user, now, cache, loadAllCalls, refreshCalls, tplVars, cliVars>>

\* -------------------------------------------------------- Templates actions
\* loadTemplatesFromAPI(reset, searchTerm) up to its await.  render is the
\* state the callback closed over, t the state with the caller's own updates
\* applied; cause names the caller.
loadTemplatesFromAPI(render, t, reset, searchTerm, cause) ==
  /\ Len(tplReqs) < MaxPending
  /\ tpl' = Rendered(tpl, cache.templates, BeforeAwait(t, reset), cache.templates)
  /\ tplReqs' = Append(tplReqs,
       PendingCall(render, reset, searchTerm,
                   getCaseTemplates(Some(LIMIT),
                                    Some(CurrentOffset(render, reset)),
                                    searchTerm))
       @@ [cause |-> cause])

\* mount: useState initial values, then the initial-load effect
TplMount ==
  /\ ~tpl.mounted
  /\ LET t == [TplUnmounted EXCEPT !.mounted = TRUE, !.hasInitialized = TRUE] IN
     IF Len(cache.templates) > 0
     THEN /\ tpl' = [FirstPageFromCache(t, cache.templates) EXCEPT !.loading = FALSE]
          /\ UNCHANGED tplReqs
     ELSE loadTemplatesFromAPI(t, t, TRUE, Null, "mount")
  /\ op' = "TplMount"
  /\ toast' = Null
  /\ loadedAll' = loadedAll
  /\ focusReloadAge' = focusReloadAge
  /\ UNCHANGED <<appVars, apiVars>>
  /\ settled' = Null
  /\ UNCHANGED <<user, server, now, cache, loadAllCalls, refreshCalls, cliVars>>

TplCleanup_KeepsTimer(timer) == timer

\* the cleanup effect: if (searchTimeoutRef.current)
\* clearTimeout(searchTimeoutRef.current)
TplCleanup(timer) == Null

\* unmount: the cleanup clears the pending timer; the continuations of the
\* calls in flight set the state of a component that is gone
TplUnmount ==
  /\ tpl.mounted
  /\ tpl' = [TplUnmounted EXCEPT !.searchTimeout = TplCleanup(tpl.searchTimeout)]
  /\ tplReqs' = <<>>
  /\ refreshCalls' = {<<call[1], IF call[2] \in {"tplDelete", "ctxDelete"}
                                  THEN "ctxDelete" ELSE "ctx">> :
                         call \in refreshCalls}
  /\ op' = IF tpl.searchTimeout = Null THEN "TplUnmount" ELSE "TplUnmountTimer"
  /\ toast' = Null
  /\ loadedAll' = loadedAll
  /\ focusReloadAge' = focusReloadAge
  /\ UNCHANGED <<appVars, apiVars>>
  /\ settled' = Null
  /\ UNCHANGED <<user, server, now, cache, loadAllCalls, cliVars>>

\* The search input's onChange.  The timer closes over value and over the
\* cachedTemplates of the render the handler belongs to; changes counts the
\* onChange calls the pending timer stands for (1, or 2 for more).
TplSearchChange(value) ==
  /\ tpl.mounted /\ ~tpl.loading
  /\ value # tpl.searchQuery
  /\ tpl' = Rendered(tpl, cache.templates,
                     [tpl EXCEPT !.searchQuery = value,
                                 !.searchTimeout =
                                    Some([value |-> value,
                                          cachedTemplates |-> cache.templates,
                                          changes |-> IF tpl.searchTimeout = Null
                                                      THEN 1 ELSE 2])],
                     cache.templates)
  /\ op' = "TplSearchChange"
  /\ toast' = Null
  /\ loadedAll' = loadedAll
  /\ focusReloadAge' = focusReloadAge
  /\ UNCHANGED <<appVars, apiVars>>
  /\ settled' = Null
  /\ UNCHANGED <<user, server, now, cache, loadAllCalls, refreshCalls, tplReqs, cliVars>>

\* the debounce timer's callback, 500 ms after the last onChange
TplSearchFire ==
  /\ tpl.searchTimeout # Null
  /\ LET timer == tpl.searchTimeout[1]
         t == [tpl EXCEPT !.searchTimeout = Null] IN
     IF Trim(timer.value) # ""
     THEN loadTemplatesFromAPI(t, t, TRUE, Some(Trim(timer.value)), "search")
     ELSE /\ tpl' = Rendered(tpl, cache.templates,
                             FirstPageFromCache(t, timer.cachedTemplates),
                             cache.templates)
          /\ UNCHANGED tplReqs
  /\ op' = "TplSearchFire"
  /\ toast' = Null
  /\ loadedAll' = loadedAll
  /\ focusReloadAge' = focusReloadAge
  /\ UNCHANGED <<appVars, apiVars>>
  /\ settled' = Null
  /\ UNCHANGED <<user, server, now, cache, loadAllCalls, refreshCalls, cliVars>>

\* the X button of the search input (rendered when searchQuery is truthy);
\* it leaves a pending timer alone
TplClear ==
  /\ tpl.mounted /\ ~tpl.loading
  /\ tpl.searchQuery # ""
  /\ tpl' = Rendered(tpl, cache.templates,
                     FirstPageFromCache([tpl EXCEPT !.searchQuery = ""],
                                        cache.templates),
                     cache.templates)
  /\ op' = "TplClear"
  /\ toast' = Null
  /\ loadedAll' = loadedAll
  /\ focusReloadAge' = focusReloadAge
  /\ UNCHANGED <<appVars, apiVars>>
  /\ settled' = Null
  /\ UNCHANGED <<user, server, now, cache, loadAllCalls, refreshCalls, tplReqs, cliVars>>

\* handleLoadMore, from the Load More button: rendered when
\* !searchQuery && hasMore, disabled while loadingMore
TplLoadMore ==
  /\ tpl.mounted /\ ~tpl.loading
  /\ tpl.searchQuery = "" /\ tpl.hasMore /\ ~tpl.loadingMore
  /\ Len(tpl.templates) < MaxVisible
  /\ IF Trim(tpl.searchQuery) # ""
     THEN loadTemplatesFromAPI(tpl, tpl, FALSE, Some(Trim(tpl.searchQuery)), "more")
     ELSE /\ tpl' = Rendered(tpl, cache.templates,
                             MoreFromCache(tpl, cache.templates), cache.templates)
          /\ UNCHANGED tplReqs
  /\ op' = "TplLoadMore"
  /\ toast' = Null
  /\ loadedAll' = loadedAll
  /\ focusReloadAge' = focusReloadAge
  /\ UNCHANGED <<appVars, apiVars>>
  /\ settled' = Null
  /\ UNCHANGED <<user, server, now, cache, loadAllCalls, refreshCalls, cliVars>>

\* api.getCaseTemplates resolved with one of the bodies the backend gives for
\* the request (anyShape: page objects with fields missing among them): the
\* rest of loadTemplatesFromAPI's try, then finally
TplSettle(anyShape) ==
  /\ \E i \in 1..Len(tplReqs) :
       /\ tplReqs[i].sent
       /\ \E data \in (IF anyShape THEN GetAnyShape(tplReqs[i].wire)
                                    ELSE Get(tplReqs[i].wire)) :
            /\ tpl' = Rendered(tpl, cache.templates,
                               Finally([Adopted("templates", tpl, tplReqs[i], data)
                                          EXCEPT !.hasInitialized = TRUE]),
                               cache.templates)
            /\ settled' = Some([call |-> tplReqs[i], body |-> Some(data),
                                last |-> i = Len(tplReqs)])
       /\ tplReqs' = RemoveAt(tplReqs, i)
  /\ op' = "TplResolve"
  /\ toast' = Null
  /\ loadedAll' = loadedAll
  /\ focusReloadAge' = focusReloadAge
  /\ UNCHANGED <<appVars, apiVars>>
  /\ UNCHANGED <<user, server, now, cache, loadAllCalls, refreshCalls, cliVars>>

TplResolve == TplSettle(FALSE)

TplResolveAnyShape == TplSettle(TRUE)

\* api.getCaseTemplates rejected: catch logs, then finally
TplReject ==
  /\ \E i \in 1..Len(tplReqs) :
       /\ tpl' = Rendered(tpl, cache.templates, Finally(tpl), cache.templates)
       /\ tplReqs' = RemoveAt(tplReqs, i)
       /\ settled' = Some([call |-> tplReqs[i], body |-> Null,
                           last |-> i = Len(tplReqs)])
  /\ op' = "TplReject"
  /\ toast' = Null
  /\ loadedAll' = loadedAll
  /\ focusReloadAge' = focusReloadAge
  /\ UNCHANGED <<appVars, apiVars>>
  /\ UNCHANGED <<user, server, now, cache, loadAllCalls, refreshCalls, cliVars>>

\* A template mutation commits and its handler goes on to
\* `await refreshTemplates()`: confirmDelete after api.deleteCaseTemplate, the
\* two CreateTemplateModal onSuccess handlers after the modal's create/update.
TplMutation(m) ==
  /\ tpl.mounted /\ ~tpl.loading
  /\ user
  /\ \A caller \in TplCallers : <<"templates", caller>> \notin refreshCalls
  /\ ServerMutation("templates", m, 1)
  /\ refreshCalls' = refreshCalls \cup
       {<<"templates", IF m = "delete" THEN "tplDelete" ELSE "tpl">>}
  /\ op' = "TplMutation"
  /\ toast' = Null
  /\ loadedAll' = loadedAll
  /\ focusReloadAge' = focusReloadAge
  /\ UNCHANGED <<appVars, apiVars>>
  /\ settled' = Null
  /\ UNCHANGED <<user, now, cache, loadAllCalls, tplVars, cliVars>>

ConfirmDeleteFailedToast_None == Null

\* confirmDelete's catch: showToast('Failed to delete ...', 'error')
ConfirmDeleteFailedToast == Some("error")

\* confirmDelete of a listed template when api.deleteCaseTemplate rejects:
\* the catch shows the toast and closes the dialog
TplDeleteFailed ==
  /\ tpl.mounted /\ ~tpl.loading
  /\ tpl.templates # <<>>
  /\ op' = "TplDeleteFailed"
  /\ toast' = ConfirmDeleteFailedToast
  /\ loadedAll' = loadedAll
  /\ focusReloadAge' = focusReloadAge
  /\ UNCHANGED <<appVars, apiVars>>
  /\ settled' = Null
  /\ UNCHANGED <<user, server, now, cache, loadAllCalls, refreshCalls,
                 tplVars, cliVars>>

\* ---------------------------------------------------------- Clients actions
\* loadClients(reset) up to its await.  The function is re-created by every
\* render and reads searchQuery and offset of the render it belongs to.
loadClients(render, t, reset, cause) ==
  /\ Len(cliReqs) < MaxPending
  /\ cli' = BeforeAwait(t, reset)
  /\ cliReqs' = Append(cliReqs,
       PendingCall(render, reset, TermOrUndefined(render.searchQuery),
                   getClients(Some(LIMIT),
                              Some(CurrentOffset(render, reset)),
                              TermOrUndefined(render.searchQuery)))
       @@ [cause |-> cause])

\* mount: useState initial values, then the effect that calls loadClients()
\* After the unmount the continuations of the calls in flight set the state
\* of a component that is gone; the one of confirmDelete still shows its toast.
GoneCalls(reqs) ==
  LET OfDelete(call) == call.cause \in {"delete", "deleteGone"}
  IN [i \in 1..Len(SelectSeq(reqs, OfDelete)) |->
        [SelectSeq(reqs, OfDelete)[i] EXCEPT !.cause = "deleteGone"]]

CliMount ==
  /\ ~cli.mounted
  /\ LET t == [CliUnmounted EXCEPT !.mounted = TRUE] IN
     loadClients(t, t, TRUE, "mount")
  /\ op' = "CliMount"
  /\ toast' = Null
  /\ loadedAll' = loadedAll
  /\ focusReloadAge' = focusReloadAge
  /\ UNCHANGED <<appVars, apiVars>>
  /\ settled' = Null
  /\ UNCHANGED <<user, server, now, cache, loadAllCalls, refreshCalls, tplVars>>

\* the visibility/focus effect's cleanup: clearTimeout(reloadTimeout)
CliCleanup(timer) == Null

CliUnmount ==
  /\ cli.mounted
  /\ cli' = [CliUnmounted EXCEPT !.reloadTimeout = CliCleanup(cli.reloadTimeout)]
  /\ cliReqs' = GoneCalls(cliReqs)
  /\ op' = IF cli.reloadTimeout = Null THEN "CliUnmount" ELSE "CliUnmountTimer"
  /\ toast' = Null
  /\ loadedAll' = loadedAll
  /\ focusReloadAge' = focusReloadAge
  /\ UNCHANGED <<appVars, apiVars>>
  /\ settled' = Null
  /\ UNCHANGED <<user, server, now, cache, loadAllCalls, refreshCalls, tplVars>>

\* handleVisibilityChange (the page has become visible) and handleFocus:
\* more than RELOAD_DEBOUNCE_MS after the last such reload the pending timer
\* is cleared and a new one set; an earlier event does nothing.
CliFocus ==
  /\ cli.mounted
  /\ cli' = IF ReloadAllowed(cli)
            THEN [cli EXCEPT !.reloadTimeout = Some(RELOAD_DELAY)]
            ELSE cli
  /\ op' = "CliFocus"
  /\ toast' = Null
  /\ loadedAll' = loadedAll
  /\ focusReloadAge' = focusReloadAge
  /\ UNCHANGED <<appVars, apiVars>>
  /\ settled' = Null
  /\ UNCHANGED <<user, server, now, cache, loadAllCalls, refreshCalls, tplVars, cliReqs>>

\* The timer's callback, 500 ms after the event: loadClients(), the
\* loadClients of the first render (the effect ran once, on mount), then
\* lastReloadTime = Date.now().
CliReloadFire ==
  /\ cli.reloadTimeout = Some(0)
  /\ loadClients([CliUnmounted EXCEPT !.mounted = TRUE],
                 [cli EXCEPT !.reloadTimeout = Null, !.lastReloadAge = Some(0)],
                 TRUE, "focus")
  /\ op' = "CliReloadFire"
  /\ toast' = Null
  /\ loadedAll' = loadedAll
  /\ focusReloadAge' = Some(0)
  /\ UNCHANGED <<appVars, apiVars>>
  /\ settled' = Null
  /\ UNCHANGED <<user, server, now, cache, loadAllCalls, refreshCalls, tplVars>>

\* 250 ms pass, no timer of the clients view being due
CliTick ==
  /\ cli.reloadTimeout # Some(0)
  /\ cli' = [cli EXCEPT !.reloadTimeout = IF @ = Null THEN Null ELSE Some(@[1] - 1),
                        !.lastReloadAge = Older(@)]
  /\ focusReloadAge' = Older(focusReloadAge)
  /\ UNCHANGED <<appVars, apiVars>>
  /\ <<cli', focusReloadAge'>> # <<cli, focusReloadAge>>
  /\ op' = "CliTick"
  /\ toast' = Null
  /\ loadedAll' = loadedAll
  /\ settled' = Null
  /\ UNCHANGED <<user, server, now, cache, loadAllCalls, refreshCalls, tplVars, cliReqs>>

\* The search input's onChange.  After setSearchQuery(value) the handler
\* reads searchTimeoutRef, which the component never declares: the read
\* throws a ReferenceError and the handler ends there, no timer set.
CliSearchChange(value) ==
  /\ cli.mounted /\ ~cli.loading
  /\ value # cli.searchQuery
  /\ cli' = [cli EXCEPT !.searchQuery = value]
  /\ op' = "CliSearchChange"
  /\ toast' = Null
  /\ loadedAll' = loadedAll
  /\ focusReloadAge' = focusReloadAge
  /\ UNCHANGED <<appVars, apiVars>>
  /\ settled' = Null
  /\ UNCHANGED <<user, server, now, cache, loadAllCalls, refreshCalls, tplVars, cliReqs>>

\* the X button: setSearchQuery(''); loadClients(true), the loadClients of
\* the render that shows the button
CliClear ==
  /\ cli.mounted /\ ~cli.loading
  /\ cli.searchQuery # ""
  /\ loadClients(cli, [cli EXCEPT !.searchQuery = ""], TRUE,
                 IF Trim(cli.searchQuery) # "" THEN "clear" ELSE "clearBlank")
  /\ op' = "CliClear"
  /\ toast' = Null
  /\ loadedAll' = loadedAll
  /\ focusReloadAge' = focusReloadAge
  /\ UNCHANGED <<appVars, apiVars>>
  /\ settled' = Null
  /\ UNCHANGED <<user, server, now, cache, loadAllCalls, refreshCalls, tplVars>>

\* handleLoadMore, from the Load More button: rendered when
\* !searchQuery && hasMore, disabled while loadingMore
CliLoadMore ==
  /\ cli.mounted /\ ~cli.loading
  /\ cli.searchQuery = "" /\ cli.hasMore /\ ~cli.loadingMore
  /\ Len(cli.clients) < MaxVisible
  /\ loadClients(cli, cli, FALSE, "more")
  /\ op' = "CliLoadMore"
  /\ toast' = Null
  /\ loadedAll' = loadedAll
  /\ focusReloadAge' = focusReloadAge
  /\ UNCHANGED <<appVars, apiVars>>
  /\ settled' = Null
  /\ UNCHANGED <<user, server, now, cache, loadAllCalls, refreshCalls, tplVars>>

\* api.getClients resolved: the rest of loadClients' try, then finally
CliResolve ==
  /\ \E i \in 1..Len(cliReqs) :
       /\ cliReqs[i].sent
       /\ \E data \in Get(cliReqs[i].wire) :
            /\ cli' = IF cliReqs[i].cause = "deleteGone" THEN cli
                      ELSE Finally(Adopted("clients", cli, cliReqs[i], data))
            /\ settled' = Some([call |-> cliReqs[i], body |-> Some(data),
                                last |-> i = Len(cliReqs)])
       /\ cliReqs' = RemoveAt(cliReqs, i)
       /\ op' = IF cliReqs[i].cause = "clear" THEN "CliCleared" ELSE "CliResolve"
       /\ toast' = ToastAfterAwait(cliReqs[i].cause)
       /\ loadedAll' = loadedAll
       /\ focusReloadAge' = focusReloadAge
       /\ UNCHANGED <<appVars, apiVars>>
  /\ UNCHANGED <<user, server, now, cache, loadAllCalls, refreshCalls, tplVars>>

\* api.getClients rejected: catch logs, then finally
CliReject ==
  /\ \E i \in 1..Len(cliReqs) :
       /\ cli' = IF cliReqs[i].cause = "deleteGone" THEN cli ELSE Finally(cli)
       /\ cliReqs' = RemoveAt(cliReqs, i)
       /\ toast' = ToastAfterAwait(cliReqs[i].cause)
       /\ loadedAll' = loadedAll
       /\ focusReloadAge' = focusReloadAge
       /\ UNCHANGED <<appVars, apiVars>>
       /\ settled' = Some([call |-> cliReqs[i], body |-> Null,
                           last |-> i = Len(cliReqs)])
  /\ op' = "CliReject"
  /\ UNCHANGED <<user, server, now, cache, loadAllCalls, refreshCalls, tplVars>>

\* A client mutation commits and its handler goes on to loadClients(true):
\* confirmDelete after api.deleteClient, the onSuccess handlers of
\* CreateClientModal and ClientDetailsModal after the modal's create/update.
CliMutation(m) ==
  /\ cli.mounted /\ ~cli.loading
  /\ user
  /\ ServerMutation("clients", m, 1)
  /\ loadClients(cli, cli, TRUE, IF m = "delete" THEN "delete" ELSE "mutation")
  /\ op' = "CliMutation"
  /\ toast' = Null
  /\ loadedAll' = loadedAll
  /\ focusReloadAge' = focusReloadAge
  /\ UNCHANGED <<appVars, apiVars>>
  /\ settled' = Null
  /\ UNCHANGED <<user, now, cache, loadAllCalls, refreshCalls, tplVars>>

\* confirmDelete of a listed client when api.deleteClient rejects
CliDeleteFailed ==
  /\ cli.mounted /\ ~cli.loading
  /\ cli.clients # <<>>
  /\ op' = "CliDeleteFailed"
  /\ toast' = ConfirmDeleteFailedToast
  /\ loadedAll' = loadedAll
  /\ focusReloadAge' = focusReloadAge
  /\ UNCHANGED <<appVars, apiVars>>
  /\ settled' = Null
  /\ UNCHANGED <<user, server, now, cache, loadAllCalls, refreshCalls,
                 tplVars, cliVars>>

\* ---------------------------------------------------------------- the App
\* useState initial values of App, and the auth effect's variables
\* isFirstAuthCheck, mounted and timeoutId (timeout: the timer is pending)
AppMounted ==
  [mounted |-> TRUE, isAuthenticated |-> FALSE, isAuthChecking |-> TRUE,
   currentView |-> "dashboard", currentUserRole |-> Null, path |-> "/",
   isFirstAuthCheck |-> TRUE, timeout |-> TRUE]

\* App is mounted and its auth effect has subscribed with onAuthChange
AppInit ==
  /\ app = AppMounted
  /\ roleCalls = 0

Views == {"dashboard", "templates", "clients", "users"}

Roles == {"admin", "user"}

\* The effects that follow a render: the route-sync effect (root or login
\* path of an authenticated user: navigate to /dashboard, currentView back to
\* dashboard) and the role-redirect effect.
AppEffects(a) ==
  LET routed == IF a.isAuthenticated /\ a.path = "/"
                THEN [a EXCEPT !.path = "/dashboard", !.currentView = "dashboard"]
                ELSE a
  IN IF routed.currentView = "users" /\ routed.currentUserRole = Some("user")
     THEN [routed EXCEPT !.currentView = "dashboard"]
     ELSE routed

UsersRendered_NoRoleCheck(a) ==
  /\ a.mounted /\ ~a.isAuthChecking /\ a.isAuthenticated
  /\ a.currentView = "users"

\* App's render reaches <Users />: past the isAuthChecking and
\* !isAuthenticated returns, in the /dashboard route and in the fallback route
UsersRendered(a) ==
  /\ a.mounted /\ ~a.isAuthChecking /\ a.isAuthenticated
  /\ a.currentView = "users" /\ a.currentUserRole = Some("admin")

\* the access-denied panel is rendered in its place
AccessDeniedRendered(a) ==
  /\ a.mounted /\ ~a.isAuthChecking /\ a.isAuthenticated
  /\ a.currentView = "users" /\ a.currentUserRole # Some("admin")

\* if (isFirstAuthCheck) { isFirstAuthCheck = false; clearTimeout(timeoutId);
\* setIsAuthChecking(false) }
FirstAuthCheckDone(a) ==
  IF a.isFirstAuthCheck
  THEN [a EXCEPT !.isFirstAuthCheck = FALSE, !.timeout = FALSE,
                 !.isAuthChecking = FALSE]
  ELSE a

AfterAuthTimeout_StillChecking(a) ==
  IF a.isFirstAuthCheck /\ a.mounted
  THEN [a EXCEPT !.isFirstAuthCheck = FALSE, !.timeout = FALSE]
  ELSE [a EXCEPT !.timeout = FALSE]

\* the 3-second timer's callback
AfterAuthTimeout(a) ==
  IF a.isFirstAuthCheck /\ a.mounted
  THEN [a EXCEPT !.isFirstAuthCheck = FALSE, !.timeout = FALSE,
                 !.isAuthChecking = FALSE]
  ELSE [a EXCEPT !.timeout = FALSE]

\* loadCurrentUserRole() up to its await, a the state with the caller's own
\* updates applied
loadCurrentUserRole(a) ==
  /\ roleCalls < MaxRoleCalls
  /\ app' = AppEffects(a)
  /\ roleCalls' = roleCalls + 1

\* The callback given to onAuthChange runs with the current user (or null);
\* one that runs after the cleanup returns at its first line.
AppAuthChange ==
  /\ IF ~app.mounted THEN UNCHANGED appVars
     ELSE IF user
     THEN loadCurrentUserRole(FirstAuthCheckDone([app EXCEPT !.isAuthenticated = TRUE]))
     ELSE /\ app' = AppEffects(FirstAuthCheckDone(
                       [app EXCEPT !.isAuthenticated = FALSE,
                                   !.currentUserRole = Null]))
          /\ UNCHANGED roleCalls
  /\ op' = "AppAuthChange"
  /\ toast' = Null
  /\ settled' = Null
  /\ UNCHANGED <<user, server, now, cache, loadAllCalls, refreshCalls, tplVars,
                 cliVars, loadedAll, focusReloadAge, apiVars>>

\* the timer set by the auth effect fires, 3 seconds after the mount
AppAuthTimeout ==
  /\ app.timeout
  /\ app' = AfterAuthTimeout(app)
  /\ op' = "AppAuthTimeout"
  /\ toast' = Null
  /\ settled' = Null
  /\ UNCHANGED <<user, server, now, cache, loadAllCalls, refreshCalls, tplVars,
                 cliVars, loadedAll, focusReloadAge, roleCalls,
                 apiVars>>

\* api.getCurrentUser resolved: setCurrentUserRole(user.role)
AppRoleResolve(role) ==
  /\ roleCalls > 0
  /\ roleCalls' = roleCalls - 1
  /\ app' = IF app.mounted
            THEN AppEffects([app EXCEPT !.currentUserRole = Some(role)])
            ELSE app
  /\ op' = "AppRoleResolve"
  /\ toast' = Null
  /\ settled' = Null
  /\ UNCHANGED <<user, server, now, cache, loadAllCalls, refreshCalls, tplVars,
                 cliVars, loadedAll, focusReloadAge, apiVars>>

\* api.getCurrentUser rejected: catch logs, setCurrentUserRole(null)
AppRoleReject ==
  /\ roleCalls > 0
  /\ roleCalls' = roleCalls - 1
  /\ app' = IF app.mounted
            THEN AppEffects([app EXCEPT !.currentUserRole = Null])
            ELSE app
  /\ op' = "AppRoleReject"
  /\ toast' = Null
  /\ settled' = Null
  /\ UNCHANGED <<user, server, now, cache, loadAllCalls, refreshCalls, tplVars,
                 cliVars, loadedAll, focusReloadAge, apiVars>>

\* A navigation button of the header (the users button is rendered for an
\* admin only), or Dashboard's onNavigate, which is setCurrentView itself.
AppNavigate(view) ==
  /\ app.mounted /\ ~app.isAuthChecking /\ app.isAuthenticated
  /\ view # app.currentView
  /\ \/ view # "users"
     \/ app.currentUserRole = Some("admin")
     \/ app.currentView = "dashboard"
  /\ app' = AppEffects([app EXCEPT !.currentView = view])
  /\ op' = "AppNavigate"
  /\ toast' = Null
  /\ settled' = Null
  /\ UNCHANGED <<user, server, now, cache, loadAllCalls, refreshCalls, tplVars,
                 cliVars, loadedAll, focusReloadAge, roleCalls,
                 apiVars>>

\* handleLoginSuccess, called by Login once the user has signed in
handleLoginSuccess ==
  /\ app.mounted /\ ~app.isAuthChecking /\ ~app.isAuthenticated
  /\ user' = TRUE
  /\ loadCurrentUserRole([app EXCEPT !.isAuthenticated = TRUE])
  /\ op' = "handleLoginSuccess"
  /\ toast' = Null
  /\ settled' = Null
  /\ UNCHANGED <<server, now, cache, loadAllCalls, refreshCalls, tplVars,
                 cliVars, loadedAll, focusReloadAge, apiVars>>

\* handleLogout: firebaseLogout(), setIsAuthenticated(false), navigate('/')
handleLogout ==
  /\ app.mounted /\ ~app.isAuthChecking /\ app.isAuthenticated
  /\ user' = FALSE
  /\ app' = AppEffects([app EXCEPT !.isAuthenticated = FALSE, !.path = "/"])
  /\ op' = "handleLogout"
  /\ toast' = Null
  /\ settled' = Null
  /\ UNCHANGED <<server, now, cache, loadAllCalls, refreshCalls, tplVars,
                 cliVars, loadedAll, focusReloadAge, roleCalls,
                 apiVars>>

\* the auth effect's cleanup: mounted = false, clearTimeout(timeoutId),
\* unsubscribe()
AppUnmount ==
  /\ app.mounted
  /\ app' = [app EXCEPT !.mounted = FALSE, !.timeout = FALSE]
  /\ op' = "AppUnmount"
  /\ toast' = Null
  /\ settled' = Null
  /\ UNCHANGED <<user, server, now, cache, loadAllCalls, refreshCalls, tplVars,
                 cliVars, loadedAll, focusReloadAge, roleCalls,
                 apiVars>>

\* ------------------------------------------------------ payments, uploads
ApiInit ==
  /\ payment = [paidAmount |-> 0, payments |-> <<>>]
  /\ payCalls = {}
  /\ paid = <<>>
  /\ upload = Null

\* the amounts entered
Amounts == {1, 2}

\* an api.addPayment call that has ended, resolved (ok) or rejected
Ended(call, ok) == [id |-> call.id, amount |-> call.amount, ok |-> ok]

\* api.addPayment(clientId, amount, ...) up to the await of getClient, whose
\* getAuthHeaders throws for want of a user
addPayment(amount) ==
  /\ Cardinality(payCalls) + Len(paid) < MaxPayments
  /\ LET call == [id |-> Cardinality(payCalls) + Len(paid) + 1,
                  amount |-> amount, client |-> Null] IN
     IF user
     THEN /\ payCalls' = payCalls \cup {call}
          /\ UNCHANGED paid
     ELSE /\ paid' = Append(paid, Ended(call, FALSE))
          /\ UNCHANGED payCalls
  /\ op' = "addPayment"
  /\ toast' = Null
  /\ settled' = Null
  /\ UNCHANGED <<user, server, now, cache, loadAllCalls, refreshCalls, tplVars,
                 cliVars, loadedAll, focusReloadAge, appVars, payment, upload>>

\* the payment addPayment sends to updateClient, computed from the client
\* it has read: { ...client.payment, paidAmount: newPaidAmount, payments:
\* updatedPayments }
UpdatedPayment(client, amount) ==
  [paidAmount |-> client.paidAmount + amount,
   payments |-> Append(client.payments, amount)]

\* getClient resolved with the client as the backend holds it; addPayment
\* goes on to updateClient, whose getAuthHeaders throws for want of a user
AddPaymentRead ==
  /\ \E call \in payCalls :
       /\ call.client = Null
       /\ IF user
          THEN /\ payCalls' = (payCalls \ {call})
                                \cup {[call EXCEPT !.client = Some(payment)]}
               /\ UNCHANGED paid
          ELSE /\ payCalls' = payCalls \ {call}
               /\ paid' = Append(paid, Ended(call, FALSE))
  /\ op' = "AddPaymentRead"
  /\ toast' = Null
  /\ settled' = Null
  /\ UNCHANGED <<user, server, now, cache, loadAllCalls, refreshCalls, tplVars,
                 cliVars, loadedAll, focusReloadAge, appVars, payment, upload>>

\* the backend stores the payment of the PUT and updateClient resolves
AddPaymentWrite ==
  /\ \E call \in payCalls :
       /\ call.client # Null
       /\ payment' = UpdatedPayment(call.client[1], call.amount)
       /\ payCalls' = payCalls \ {call}
       /\ paid' = Append(paid, Ended(call, TRUE))
  /\ op' = "AddPaymentWrite"
  /\ toast' = Null
  /\ settled' = Null
  /\ UNCHANGED <<user, server, now, cache, loadAllCalls, refreshCalls, tplVars,
                 cliVars, loadedAll, focusReloadAge, appVars, upload>>

\* getClient or updateClient rejected (!response.ok): addPayment rejects
AddPaymentReject ==
  /\ \E call \in payCalls :
       /\ payCalls' = payCalls \ {call}
       /\ paid' = Append(paid, Ended(call, FALSE))
  /\ op' = "AddPaymentReject"
  /\ toast' = Null
  /\ settled' = Null
  /\ UNCHANGED <<user, server, now, cache, loadAllCalls, refreshCalls, tplVars,
                 cliVars, loadedAll, focusReloadAge, appVars, payment, upload>>

\* What getIdToken() of the firebase module resolves with: the ID token of
\* the current user, null when there is none.
getIdToken == IF user THEN {Some("token")} ELSE {Null}

\* const headers = {}; if (token) headers['Authorization'] = `Bearer ${token}`
UploadHeaders(token) == IF token # Null THEN Some("Bearer") ELSE Null

\* api.uploadDocument and api.uploadAdditionalDocument up to the await of
\* fetch: the request is sent with the headers built from the token
UploadRequest(operation) ==
  /\ \E token \in getIdToken :
       upload' = Some([operation |-> operation,
                       authorization |-> UploadHeaders(token)])
  /\ op' = operation
  /\ toast' = Null
  /\ settled' = Null
  /\ UNCHANGED <<user, server, now, cache, loadAllCalls, refreshCalls, tplVars,
                 cliVars, loadedAll, focusReloadAge, appVars, payment, payCalls,
                 paid>>

uploadDocument == UploadRequest("uploadDocument")

uploadAdditionalDocument == UploadRequest("uploadAdditionalDocument")

\* the response of the upload has come
UploadSettled ==
  /\ upload # Null
  /\ upload' = Null
  /\ op' = "UploadSettled"
  /\ toast' = Null
  /\ settled' = Null
  /\ UNCHANGED <<user, server, now, cache, loadAllCalls, refreshCalls, tplVars,
                 cliVars, loadedAll, focusReloadAge, appVars, payment, payCalls,
                 paid>>

\* ------------------------------------------------- the session data cache
\* useState initial values of DataProvider
InitCache ==
  [clients |-> <<>>, templates |-> <<>>, reminders |-> <<>>,
   loading |-> TRUE, lastFetchTime |-> Null, isInitialized |-> FALSE]

Init ==
  /\ user = FALSE
  /\ server = [clients |-> <<Item(1, 0)>>, templates |-> <<>>,
               reminders |-> <<>>, nextId |-> 2, created |-> 0, deleted |-> 0]
  /\ now = 0
  /\ cache = InitCache
  /\ loadAllCalls = 0
  /\ refreshCalls = {}
  /\ tpl = TplUnmounted
  /\ tplReqs = <<>>
  /\ cli = CliUnmounted
  /\ cliReqs = <<>>
  /\ op = "init"
  /\ toast = Null
  /\ settled = Null
  /\ loadedAll = FALSE
  /\ focusReloadAge = Null
  /\ AppInit
  /\ ApiInit

Next ==
  \/ Login
  \/ Logout
  \/ BackendChange
  \/ InitialLoad
  \/ refreshAll
  \/ AutoRefreshTick
  \/ LoadAllResolve
  \/ LoadAllReject
  \/ \E kind \in Kinds : RefreshCall(kind)
  \/ RefreshResolve
  \/ RefreshReject
  \/ invalidateCache

Spec == Init /\ [][Next]_vars

\* Timers fire and every fetch settles (resolves or rejects).
FairSpec ==
  /\ Spec
  /\ WF_vars(AutoRefreshTick)
  /\ WF_vars(InitialLoad)
  /\ WF_vars(LoadAllResolve \/ LoadAllReject)
  /\ WF_vars(RefreshResolve \/ RefreshReject)

\* ------------------------------------------- a list view over a loaded cache
\* the collection with ids 1..n
Items(n) == [i \in 1..n |-> Item(i, 0)]

\* sizes of the collection the view starts over: none, one, a page and one,
\* two pages and ten
InitialSizes == {0, 1, LIMIT + 1, 2 * LIMIT + 10}

\* The session is open and loadAllData() has resolved over the backend's
\* collections, n entities of the given kind among them.
Loaded(kind, n) ==
  /\ user = TRUE
  /\ server = [[clients |-> <<>>, templates |-> <<>>, reminders |-> <<>>,
                nextId |-> n + 1, created |-> 0, deleted |-> 0]
               EXCEPT ![kind] = Items(n)]
  /\ now = 0
  /\ cache = [[InitCache EXCEPT !.loading = FALSE, !.isInitialized = TRUE,
                                !.lastFetchTime = Some(0)]
              EXCEPT ![kind] = Items(n)]
  /\ loadAllCalls = 0
  /\ refreshCalls = {}
  /\ tpl = TplUnmounted
  /\ tplReqs = <<>>
  /\ cli = CliUnmounted
  /\ cliReqs = <<>>
  /\ op = "init"
  /\ toast = Null
  /\ settled = Null
  /\ loadedAll = TRUE
  /\ focusReloadAge = Null
  /\ AppInit
  /\ ApiInit

TplInit == \E n \in InitialSizes : Loaded("templates", n)

TplNext ==
  \/ TplMount
  \/ TplUnmount
  \/ \E value \in Terms : TplSearchChange(value)
  \/ TplSearchFire
  \/ TplClear
  \/ TplLoadMore
  \/ TplResolve
  \/ TplReject
  \/ \E m \in Mutations : TplMutation(m)
  \/ RefreshResolve
  \/ RefreshReject

TplSpec == TplInit /\ [][TplNext]_vars

\* the templates view paging through the cache while its mutations succeed
\* or fail
MutNext ==
  \/ TplMount
  \/ TplUnmount
  \/ TplLoadMore
  \/ \E m \in Mutations : TplMutation(m)
  \/ TplDeleteFailed
  \/ RefreshResolve
  \/ RefreshReject

MutSpec == TplInit /\ [][MutNext]_vars

\* the templates view before responses of every shape
ShapeNext ==
  \/ TplMount
  \/ TplUnmount
  \/ \E value \in Terms : TplSearchChange(value)
  \/ TplSearchFire
  \/ TplClear
  \/ TplResolveAnyShape
  \/ TplReject

ShapeSpec == TplInit /\ [][ShapeNext]_vars

\* the cache's background refresh and the two views while the user signs
\* out and in
AuthInit == Loaded("clients", 1)

AuthNext ==
  \/ Login
  \/ Logout
  \/ AutoRefreshTick
  \/ LoadAllResolve
  \/ LoadAllReject
  \/ TplMount
  \/ TplUnmount
  \/ \E value \in Terms : TplSearchChange(value)
  \/ TplSearchFire
  \/ TplResolve
  \/ TplReject
  \/ CliMount
  \/ CliUnmount
  \/ CliResolve
  \/ CliReject

AuthSpec == AuthInit /\ [][AuthNext]_vars

CliInit == \E n \in InitialSizes : Loaded("clients", n)

\* (CliLoadMore is left out: no response to a request without limit sets
\* hasMore, so the button that calls it is never rendered.)
CliNext ==
  \/ CliMount
  \/ CliUnmount
  \/ \E value \in Terms : CliSearchChange(value)
  \/ CliClear
  \/ CliResolve
  \/ CliReject
  \/ \E m \in Mutations : CliMutation(m)
  \/ CliDeleteFailed
  \/ RefreshCall("clients")
  \/ RefreshResolve
  \/ RefreshReject

CliSpec == CliInit /\ [][CliNext]_vars

\* the clients view reloading on focus and after a delete while earlier page
\* requests are in flight
OverlapNext ==
  \/ CliMount
  \/ CliUnmount
  \/ CliFocus
  \/ CliReloadFire
  \/ CliTick
  \/ CliResolve
  \/ CliReject
  \/ \E m \in Mutations : CliMutation(m)

OverlapSpec == CliInit /\ [][OverlapNext]_vars

\* the clients view searching and reloading on focus
FocusNext ==
  \/ CliMount
  \/ CliUnmount
  \/ \E value \in Terms : CliSearchChange(value)
  \/ CliFocus
  \/ CliReloadFire
  \/ CliTick
  \/ CliResolve
  \/ CliReject

FocusSpec == CliInit /\ [][FocusNext]_vars

\* the App from its mount, signed out, while the user signs in and out
AppNext ==
  \/ Login
  \/ Logout
  \/ AppAuthChange
  \/ AppAuthTimeout
  \/ \E role \in Roles : AppRoleResolve(role)
  \/ AppRoleReject
  \/ \E view \in Views : AppNavigate(view)
  \/ handleLoginSuccess
  \/ handleLogout
  \/ AppUnmount

AppSpec == Init /\ [][AppNext]_vars

\* The timer of the auth effect fires unless it is cleared.
AppFairSpec == AppSpec /\ WF_vars(AppAuthTimeout)

\* payments and uploads through the api while the user signs in and out
ApiNext ==
  \/ Login
  \/ Logout
  \/ \E amount \in Amounts : addPayment(amount)
  \/ AddPaymentRead
  \/ AddPaymentWrite
  \/ AddPaymentReject
  \/ uploadDocument
  \/ uploadAdditionalDocument
  \/ UploadSettled

ApiSpec == Init /\ [][ApiNext]_vars

\* the timers of the two views: the search debounce of Templates and the
\* visibility/focus reload of Clients
TimerInit == \E n \in {0, 1} : Loaded("templates", n)

TimerNext ==
  \/ TplMount
  \/ TplUnmount
  \/ \E value \in Terms : TplSearchChange(value)
  \/ TplSearchFire
  \/ TplResolve
  \/ TplReject
  \/ CliMount
  \/ CliUnmount
  \/ CliFocus
  \/ CliReloadFire
  \/ CliTick
  \/ CliResolve
  \/ CliReject

TimerSpec == TimerInit /\ [][TimerNext]_vars

\* ------------------------------------------------------------------ claims
CacheData(c) == <<c.clients, c.templates, c.reminders, c.lastFetchTime>>

LoadAllCallOps == {"InitialLoad", "refreshAll", "AutoRefreshTick"}

NoDuplicateIds(s) ==
  \A i, j \in 1..Len(s) : s[i].id = s[j].id => i = j

\* the page request the step has just issued
Issued(reqs) == reqs[Len(reqs)]

\* C1: a loadAll() one of whose fetches fails leaves the clients, templates
\* and reminders collections and the fetch timestamp as they were: neither
\* the call nor the rejection changes them.
C1_FailedLoadAllKeepsData ==
  [][op' \in LoadAllCallOps \cup {"LoadAllReject"}
       => CacheData(cache') = CacheData(cache)]_vars

\* a loadAll() has just failed over a cache that holds data and a timestamp
C1_Witness ==
  /\ op = "LoadAllReject"
  /\ cache.clients # <<>>
  /\ cache.lastFetchTime # Null
  /\ cache.clients # server.clients

\* C2: after every loadNextPage() of the templates view, whatever first-page
\* loads (failed ones included) came before it, the visible list is
\* min(total, offset) long and holds no entity id twice.
C2_PagesTileTheList ==
  op = "TplLoadMore" =>
     /\ Len(tpl.templates) = Min(tpl.total, tpl.offset)
     /\ NoDuplicateIds(tpl.templates)

\* C3: when the debounce timer stands for two onSearchTermChange calls and
\* the latest term is not blank, its firing issues exactly one backend
\* request, and that request carries the latest term.
C3_DebouncedSearchUsesLatestTerm ==
  [][(op' = "TplSearchFire" /\ tpl.searchTimeout[1].changes = 2
        /\ Trim(tpl.searchTimeout[1].value) # "")
       => /\ Len(tplReqs') = Len(tplReqs) + 1
          /\ Issued(tplReqs').wire.search = Some(Trim(tpl.searchTimeout[1].value))]_vars

\* C4: when the clients view has cleared a non-blank search term and the
\* reload this starts has completed, the visible list is the first LIMIT
\* items of the cache's clients collection and total is that collection's
\* length.
C4_ClearedSearchShowsCache ==
  [][op' = "CliCleared"
       => /\ cli'.clients = Slice(cache'.clients, 0, LIMIT)
          /\ cli'.total = Len(cache'.clients)]_vars

\* C5: when the cache refresh that follows a committed template mutation
\* (create, update or delete) completes, the templates view, if no search is
\* active, shows the first page of the refreshed collection.
C5_MutationResetsToFirstPage ==
  [][(op' = "MutationRefreshed" /\ Trim(tpl'.searchQuery) = "")
       => /\ tpl'.templates = Slice(cache'.templates, 0, LIMIT)
          /\ tpl'.total = Len(cache'.templates)
          /\ tpl'.offset = Len(tpl'.templates)]_vars

\* C6: every committed client mutation starts a refresh of the cache's
\* clients collection.
C6_MutationRefreshesCache ==
  [][op' = "CliMutation"
       => \E call \in refreshCalls' : call[1] = "clients"]_vars

\* C7: loadAll() never runs concurrently with itself.
C7_NoConcurrentLoadAll == loadAllCalls <= 1

\* C8: in an active session, whenever isStale() holds the background check
\* eventually calls loadAll() (unless the session ends or the cache stops
\* being stale first).
C8_StaleEventuallyReloads ==
  (user /\ cache.isInitialized /\ isStale)
     ~> (loadAllCalls > 0 \/ ~user \/ ~isStale)

\* C9: isStale() holds after construction and until a fetch succeeds, does
\* not hold right after a successful loadAll(), and from then on starts to
\* hold again only when more than maxAge has passed since the last successful
\* fetch or invalidate() was called.
C9_Staleness ==
  /\ isStale
  /\ [][/\ (isStale /\ ~isStale') =>
              op' \in {"LoadAllResolve", "RefreshResolve", "MutationRefreshed"}
        /\ op' = "LoadAllResolve" => ~isStale'
        /\ (~isStale /\ isStale') =>
              \/ op' = "invalidateCache"
              \/ /\ op' = "AutoRefreshTick"
                 /\ cache'.lastFetchTime = cache.lastFetchTime
                 /\ now' - cache.lastFetchTime[1] > CACHE_DURATION]_vars

\* the cache went stale by age after a successful loadAll()
C9_Witness ==
  /\ op = "AutoRefreshTick"
  /\ cache.lastFetchTime # Null
  /\ isStale
  /\ cache.clients # <<>>

\* C10: a first-page load under a search term issues a backend request that
\* carries offset = 0, limit = LIMIT and search = the term.
C10_SearchRequestCarriesWindow ==
  [][(op' = "TplSearchFire" /\ Len(tplReqs') > Len(tplReqs))
       => Issued(tplReqs').wire =
             [kind |-> "templates", limit |-> Some(LIMIT), offset |-> Some(0),
              search |-> Some(Trim(tpl.searchTimeout[1].value))]]_vars

\* C11: with no search term, the first-page load of the clients view takes
\* the first LIMIT items of the cache's clients collection without a backend
\* call, sets total to the collection's length and hasMore to total > LIMIT.
C11_FirstPageFromCache ==
  [][op' = "CliMount"
       => /\ cliReqs' = cliReqs
          /\ cli'.clients = Slice(cache'.clients, 0, LIMIT)
          /\ cli'.total = Len(cache'.clients)
          /\ cli'.hasMore = (Len(cache'.clients) > LIMIT)]_vars

C13_BothShapesAdopted ==
  [][(op' = "TplResolve" /\ Trim(tpl.searchQuery) # "")
       => LET call == settled'[1].call
              data == settled'[1].body[1]
              items == IF data.list = Null THEN <<>> ELSE data.list[1]
          IN IF data.isArray
             THEN /\ tpl'.templates = items
                  /\ tpl'.total = Len(items)
                  /\ tpl'.hasMore = FALSE
             ELSE /\ tpl'.templates = IF call.reset THEN items
                                      ELSE tpl.templates \o items
                  /\ tpl'.total = IF data.total = Null THEN 0 ELSE data.total[1]
                  /\ tpl'.hasMore = IF data.hasMore = Null THEN FALSE
                                    ELSE data.hasMore[1]]_vars

\* C14: a page fetch of the templates view that fails leaves the view idle
\* (loading and loadingMore false) with the visible list, total and hasMore
\* as they were and offset still the number of items visible.
C14_FailedFetchKeepsWindow ==
  [][op' = "TplReject"
       => /\ ~tpl'.loading /\ ~tpl'.loadingMore
          /\ tpl'.templates = tpl.templates
          /\ tpl'.total = tpl.total
          /\ tpl'.hasMore = tpl.hasMore
          /\ tpl'.offset = Len(tpl'.templates)]_vars

\* C15: a page fetch of the templates view that fails is reported through
\* the toast sink.
C15_FailedFetchToasts ==
  [][op' = "TplReject" => toast' = Some("error")]_vars

\* C16: a refresh of one kind that succeeds leaves the collections of the
\* other two kinds unchanged; a refresh that fails, like the call itself,
\* leaves all three collections and the fetch timestamp unchanged.
C16_RefreshTouchesOneKind ==
  [][/\ op' = "RefreshResolve" =>
          \E call \in refreshCalls \ refreshCalls' :
             \A kind \in Kinds \ {call[1]} : cache'[kind] = cache[kind]
     /\ op' \in {"RefreshCall", "RefreshReject"} =>
          CacheData(cache') = CacheData(cache)]_vars

\* a refresh of the clients or the reminders has succeeded and left the
\* templates collection, which lags behind the backend, as it was
C16_Witness ==
  /\ op = "RefreshResolve"
  /\ cache.clients = server.clients /\ cache.clients # <<>>
  /\ cache.templates # server.templates

\* C17: while no user is signed in, neither the cache's background refresh
\* nor a page fetch of a list view issues a backend request: no loadAllData()
\* gets as far as its fetches, and a page request a view starts is not sent.
C17_NoRequestWithoutUser ==
  [][~user
       => /\ loadAllCalls' <= loadAllCalls
          /\ Len(tplReqs') > Len(tplReqs) => ~Issued(tplReqs').sent
          /\ Len(cliReqs') > Len(cliReqs) => ~Issued(cliReqs').sent]_vars

\* signed out, the clients view has started a page fetch that was not sent,
\* and the background check has just found the cache stale and loaded nothing
C17_Witness ==
  /\ ~user
  /\ op = "AutoRefreshTick"
  /\ isStale
  /\ loadAllCalls = 0
  /\ cli.mounted /\ Len(cliReqs) > 0 /\ ~cliReqs[1].sent

\* C18: a logout clears the cache: after it the clients, templates and
\* reminders collections are empty and the fetch timestamp is unset.
C18_LogoutClearsCache ==
  [][op' = "Logout"
       => CacheData(cache') = <<<<>>, <<>>, <<>>, Null>>]_vars

\* C19: a delete of the templates view whose backend call fails shows an
\* error toast and leaves the cache's collections and timestamp and the
\* view's visible list and pagination window as they were.
C19_FailedMutationNotApplied ==
  [][op' = "TplDeleteFailed"
       => /\ toast' = Some("error")
          /\ CacheData(cache') = CacheData(cache)
          /\ tpl' = tpl]_vars

\* a delete has just failed over a view that lists templates of the cache
C19_Witness ==
  /\ op = "TplDeleteFailed"
  /\ toast = Some("error")
  /\ tpl.templates # <<>>
  /\ cache.templates # <<>>

\* C20: when a page request of the clients view resolves while a request
\* issued after it is in flight, its response is discarded: the visible list
\* and the pagination window stay as they were.
C20_OnlyLastIssuedApplied ==
  [][(op' \in {"CliResolve", "CliCleared"} /\ ~settled'[1].last)
       => /\ cli'.clients = cli.clients
          /\ <<cli'.offset, cli'.total, cli'.hasMore>>
               = <<cli.offset, cli.total, cli.hasMore>>
          /\ cli'.loading = cli.loading]_vars

\* C21: in the templates view, whenever the search box is empty, no debounce
\* timer is pending and no page request is in flight, offset equals the
\* length of the visible list.
C21_OffsetIsVisibleLength ==
  (/\ tpl.mounted
   /\ tpl.searchQuery = "" /\ tpl.searchTimeout = Null
   /\ tplReqs = <<>> /\ ~tpl.loading /\ ~tpl.loadingMore)
    => tpl.offset = Len(tpl.templates)

\* C22: when a debounce timer of the templates view fires after the search
\* term has been cleared (the search box is empty), it starts no backend
\* request and the visible list is the first page of the cached collection.
C22_ClearedSearchSupersedesTimer ==
  [][(op' = "TplSearchFire" /\ tpl.searchQuery = "")
       => /\ tplReqs' = tplReqs
          /\ tpl'.searchQuery = ""
          /\ tpl'.templates = Slice(cache.templates, 0, LIMIT)]_vars

\* C23: as long as no loadAllData() call has resolved, the background check
\* (the auto-refresh interval's callback) starts no loadAllData() call.
C23_NoBackgroundLoadBeforeFirstLoad ==
  [][(op' = "AutoRefreshTick" /\ ~loadedAll)
       => loadAllCalls' = loadAllCalls]_vars

C25_UnmountCancelsTimers ==
  /\ [](~tpl.mounted => tpl.searchTimeout = Null)
  /\ [](~cli.mounted => cli.reloadTimeout = Null)
  /\ [][/\ op' = "TplSearchFire" => tpl.mounted
        /\ op' = "CliReloadFire" => cli.mounted]_vars

\* Templates has just been unmounted with its debounce timer pending
C25_Witness ==
  /\ op = "TplUnmountTimer"
  /\ ~tpl.mounted
  /\ tpl.searchTimeout = Null

\* C26: the reload of the clients view that a visibility or focus event
\* starts asks for the search term the search box holds at that time.
C26_FocusReloadUsesCurrentTerm ==
  [][op' = "CliReloadFire"
       => Issued(cliReqs').search = TermOrUndefined(cli.searchQuery)]_vars

\* C28: the Users component is rendered only for a current user whose role
\* is admin, and the view is never left on users with a known role of user:
\* the role-redirect effect has sent it back to the dashboard.
C28_UsersOnlyForAdmin ==
  /\ UsersRendered(app) => app.currentUserRole = Some("admin")
  /\ app.currentView = "users" => app.currentUserRole # Some("user")

\* the view is users and the role has failed to load: the access-denied
\* panel is rendered, not Users
C28_Witness ==
  /\ op = "AppRoleReject"
  /\ AccessDeniedRendered(app)
  /\ app.currentUserRole = Null
  /\ ~UsersRendered(app)

\* C29: the startup auth check ends and stays ended.  While the App is
\* mounted, the first auth-state callback and the 3-second timeout each leave
\* isAuthChecking false; once false it is never true again; a timeout or a
\* callback that runs after the unmount changes nothing; and isAuthChecking
\* does become false unless the App is unmounted first.
C29_AuthCheckEnds ==
  /\ [][/\ (op' \in {"AppAuthChange", "AppAuthTimeout"} /\ app.mounted)
             => ~app'.isAuthChecking
        /\ ~app.isAuthChecking => ~app'.isAuthChecking
        /\ (op' \in {"AppAuthChange", "AppAuthTimeout"} /\ ~app.mounted)
             => <<app', roleCalls'>> = <<app, roleCalls>>]_vars
  /\ <>(~app.isAuthChecking \/ ~app.mounted)

\* no auth-state callback has come and the timeout has ended the check
C29_Witness ==
  /\ op = "AppAuthTimeout"
  /\ app.mounted
  /\ ~app.isAuthChecking
  /\ ~app.isAuthenticated

\* the sum of the amounts of the ended calls
RECURSIVE AmountsOf(_)
AmountsOf(calls) ==
  IF calls = <<>> THEN 0
  ELSE calls[1].amount + AmountsOf(Tail(calls))

\* C27: once every api.addPayment call on the client has resolved, none
\* having failed, the client's paidAmount has grown by the sum of the amounts
\* and its payments list holds one entry per call.
C27_NoPaymentLost ==
  (payCalls = {} /\ \A i \in 1..Len(paid) : paid[i].ok)
    => /\ payment.paidAmount = AmountsOf(paid)
       /\ Len(payment.payments) = Len(paid)

\* C30: every upload request the api has sent to the backend carries an
\* Authorization header.
C30_UploadsAuthorized ==
  upload # Null => upload[1].authorization # Null

====
